---- MODULE Spec2Model ----
(***************************************************************************)
(* Verification model of the Forge plugin repository:                      *)
(*   - task-system: debounced frontmatter pipeline (FileEventHandler,      *)
(*     DebounceManager, FrontmatterReader/Writer, DefaultValueAssigner,    *)
(*     SchemaValidator);                                                   *)
(*   - sortable-list: write-back of a reordered sortable code block.       *)
(*                                                                         *)
(* Texts are sequences of atoms (one atom = one character or one run of    *)
(* characters that no operation splits).  JavaScript values are records    *)
(* [k, v]: k is the runtime type, v the payload as a sequence of atoms.    *)
(***************************************************************************)
EXTENDS Integers, Sequences, FiniteSets, TLC

\* ------------------------------------------------------------------------
\* JavaScript values
\* ------------------------------------------------------------------------
Undefined == [k |-> "undefined", v |-> <<>>]
Null == [k |-> "null", v |-> <<>>]
Bool(b) == [k |-> "bool", v |-> <<IF b THEN "true" ELSE "false">>]
Num(n) == [k |-> "num", v |-> <<n>>]
Str(s) == [k |-> "str", v |-> s]
DateObj(d) == [k |-> "date", v |-> <<d>>]
Arr(xs) == [k |-> "arr", v |-> xs]

\* JavaScript truthiness: !x is the negation of this.
Truthy(x) ==
    CASE x.k = "undefined" -> FALSE
      [] x.k = "null" -> FALSE
      [] x.k = "bool" -> x.v = <<"true">>
      [] x.k = "num" -> x.v # <<"0">>
      [] x.k = "str" -> x.v # <<>>
      [] OTHER -> TRUE

\* Calendar days the model knows, oldest first.
Days == <<"2024-01-15", "2026-11-05", "2026-11-06">>

DaySet == {Days[i] : i \in 1..Len(Days)}

DayIndex(d) == CHOOSE i \in 1..Len(Days) : Days[i] = d

\* Time-of-day suffix of Date.prototype.toISOString for a UTC midnight.
IsoMidnight == "T00:00:00.000Z"

\* ------------------------------------------------------------------------
\* Records (frontmatter objects): insertion-ordered key/value entries
\* ------------------------------------------------------------------------
Has(r, key) == \E i \in 1..Len(r) : r[i].key = key

Get(r, key) ==
    IF Has(r, key)
    THEN r[CHOOSE i \in 1..Len(r) : r[i].key = key].val
    ELSE Undefined

Set(r, key, val) ==
    IF Has(r, key)
    THEN [i \in 1..Len(r) |-> IF r[i].key = key THEN [key |-> key, val |-> val] ELSE r[i]]
    ELSE Append(r, [key |-> key, val |-> val])

\* ------------------------------------------------------------------------
\* Text atoms
\* ------------------------------------------------------------------------
NL == "\n"
Fence == "---"
Colon == ":"
DQuote == "\""
SeqItem == "  - "
Dollar == "$"
Amp == "&"
SQuote == "'"
Backtick == "BACKTICK"

RECURSIVE Concat(_)
Concat(ss) == IF ss = <<>> THEN <<>> ELSE Head(ss) \o Concat(Tail(ss))

\* String.prototype.split('\n')
RECURSIVE SplitLines(_)
SplitLines(t) ==
    IF \A i \in 1..Len(t) : t[i] # NL
    THEN <<t>>
    ELSE LET i == CHOOSE j \in 1..Len(t) : t[j] = NL /\ \A m \in 1..(j - 1) : t[m] # NL
         IN <<SubSeq(t, 1, i - 1)>> \o SplitLines(SubSeq(t, i + 1, Len(t)))

\* ------------------------------------------------------------------------
\* js-yaml: load
\* ------------------------------------------------------------------------
NumAtoms == {"0", "5"}

YamlError == [k |-> "error", v |-> <<>>]

\* Resolution of one scalar node of the default schema.
LoadScalar(src) ==
    CASE src = <<>> -> Null
      [] src = <<"null">> \/ src = <<"~">> -> Null
      [] src = <<"true">> -> Bool(TRUE)
      [] src = <<"false">> -> Bool(FALSE)
      [] src = <<"[]">> -> Arr(<<>>)
      [] Len(src) = 1 /\ src[1] \in NumAtoms -> Num(src[1])
      [] Len(src) = 1 /\ src[1] \in DaySet -> DateObj(src[1])
      [] Len(src) = 2 /\ src[1] \in DaySet /\ src[2] = IsoMidnight -> DateObj(src[1])
      [] src # <<>> /\ src[1] = DQuote ->
            IF Len(src) >= 2 /\ src[Len(src)] = DQuote
               /\ \A i \in 2..(Len(src) - 1) : src[i] # DQuote
            THEN Str(SubSeq(src, 2, Len(src) - 1))
            ELSE YamlError
      [] \E i \in 1..Len(src) : src[i] \in {Colon, Fence, SeqItem} -> YamlError
      [] OTHER -> Str(src)

\* A block mapping read line by line.  acc is [ok, rec]; a line is
\*   key Colon scalar    a mapping entry,
\*   SeqItem item        an item of the block sequence opened by the last entry,
\*   (empty)             skipped,
\* and anything else is a YAMLException (duplicated keys included).
RECURSIVE LoadLines(_, _)
LoadLines(lines, acc) ==
    IF lines = <<>> \/ ~acc.ok THEN acc
    ELSE LET ln == Head(lines)
             rec == acc.rec
             bad == [ok |-> FALSE, rec |-> <<>>]
         IN IF ln = <<>> THEN LoadLines(Tail(lines), acc)
            ELSE IF Len(ln) >= 2 /\ ln[2] = Colon /\ ln[1] \notin {Fence, SeqItem, Colon, DQuote}
            THEN LET val == LoadScalar(SubSeq(ln, 3, Len(ln)))
                 IN IF Has(rec, ln[1]) \/ val = YamlError
                    THEN bad
                    ELSE LoadLines(Tail(lines),
                                   [ok |-> TRUE, rec |-> Append(rec, [key |-> ln[1], val |-> val])])
            ELSE IF Len(ln) = 2 /\ ln[1] = SeqItem /\ rec # <<>>
                    /\ ln[2] \notin {Fence, SeqItem, Colon, DQuote}
            THEN LET last == rec[Len(rec)]
                 IN IF last.val = Null
                    THEN LoadLines(Tail(lines),
                                   [ok |-> TRUE,
                                    rec |-> Set(rec, last.key, Arr(<<ln[2]>>))])
                    ELSE IF last.val.k = "arr" /\ last.val.v # <<>>
                    THEN LoadLines(Tail(lines),
                                   [ok |-> TRUE,
                                    rec |-> Set(rec, last.key, Arr(Append(last.val.v, ln[2])))])
                    ELSE bad
            ELSE bad

\* yaml.load(text): [ok |-> FALSE] is a thrown YAMLException; an empty
\* document loads as undefined, which is rec = <<>> with empty = TRUE.
YamlLoad(t) ==
    LET res == LoadLines(SplitLines(t), [ok |-> TRUE, rec |-> <<>>])
    IN [ok |-> res.ok, empty |-> (res.ok /\ res.rec = <<>>), rec |-> res.rec]

\* ------------------------------------------------------------------------
\* js-yaml: dump
\* ------------------------------------------------------------------------
\* Characters a plain scalar may not start with (c-indicators).
UnsafeFirst == {SQuote, DQuote, Amp, Backtick, "-", SeqItem, "[]", Colon, Fence, "~", " "}

\* A string is written plain only if reading it back gives the same string.
PlainSafe(s) ==
    /\ s # <<>>
    /\ s[1] \notin UnsafeFirst
    /\ s[Len(s)] # " "
    /\ \A i \in 1..Len(s) : s[i] \notin {Colon, DQuote, NL}
    /\ LoadScalar(s) = Str(s)

DumpScalar(x) ==
    CASE x.k = "null" -> <<"null">>
      [] x.k = "bool" -> x.v
      [] x.k = "num" -> x.v
      [] x.k = "date" -> <<x.v[1], IsoMidnight>>
      [] x.k = "arr" -> <<"[]">>
      [] x.k = "str" -> IF PlainSafe(x.v) THEN x.v ELSE <<DQuote>> \o x.v \o <<DQuote>>
      [] OTHER -> <<>>

DumpEntry(e) ==
    IF e.val.k = "undefined" THEN <<>>
    ELSE IF e.val.k = "arr" /\ e.val.v # <<>>
    THEN <<e.key, Colon, NL>>
         \o Concat([i \in 1..Len(e.val.v) |-> <<SeqItem, e.val.v[i], NL>>])
    ELSE <<e.key, Colon>> \o DumpScalar(e.val) \o <<NL>>

\* yaml.dump(record, options): keys in insertion order, double quotes when quoting
YamlDump(r) == Concat([i \in 1..Len(r) |-> DumpEntry(r[i])])

\* ------------------------------------------------------------------------
\* FrontmatterReader / FrontmatterWriter
\* ------------------------------------------------------------------------
\* content.startsWith(Fence NL)
StartsWithFence(content) == Len(content) >= 2 /\ content[1] = Fence /\ content[2] = NL

\* The regular expression ^---\n([\s\S]*?)\n--- : the opening fence, the
\* shortest body, and the first later line that starts with the fence.
\* last is the index of the closing fence atom, 0 when nothing matches.
FrontmatterMatch(content) ==
    LET ends == {j \in 3..(Len(content) - 1) : content[j] = NL /\ content[j + 1] = Fence}
    IN IF StartsWithFence(content) /\ ends # {}
       THEN LET j == CHOOSE e \in ends : \A o \in ends : e <= o
            IN [last |-> j + 1, body |-> SubSeq(content, 3, j - 1)]
       ELSE [last |-> 0, body |-> <<>>]

NullFrontmatter == [isNull |-> TRUE, rec |-> <<>>]

\* readFrontmatter once vault.read has returned content: null when nothing
\* matches, when yaml.load throws, and when the region is empty.
readFrontmatter(content) ==
    LET m == FrontmatterMatch(content)
        y == YamlLoad(m.body)
    IN IF m.last = 0 \/ ~y.ok \/ y.empty
       THEN NullFrontmatter
       ELSE [isNull |-> FALSE, rec |-> y.rec]

\* A gate that tests the marker for truthiness instead of identity with true.
isAtomicNoteTruthy(frontmatter) == Truthy(Get(frontmatter, "atomic-task"))

isAtomicNote(frontmatter) == Get(frontmatter, "atomic-task") = Bool(TRUE)

\* String.prototype.replace with a replacement string: the patterns
\* $$, $&, $BACKTICK and $' are substituted ($n is literal, the regular
\* expression of the writer has no capture group).
RECURSIVE ExpandReplacement(_, _, _, _)
ExpandReplacement(repl, matched, before, after) ==
    IF repl = <<>> THEN <<>>
    ELSE IF Len(repl) >= 2 /\ repl[1] = Dollar /\ repl[2] \in {Dollar, Amp, Backtick, SQuote}
    THEN (CASE repl[2] = Dollar -> <<Dollar>>
            [] repl[2] = Amp -> matched
            [] repl[2] = Backtick -> before
            [] OTHER -> after)
         \o ExpandReplacement(SubSeq(repl, 3, Len(repl)), matched, before, after)
    ELSE <<Head(repl)>> \o ExpandReplacement(Tail(repl), matched, before, after)

\* The text writeFrontmatter hands to vault.modify, given the content its
\* own vault.read returned.
writeFrontmatter(content, frontmatter) ==
    LET yamlString == YamlDump(frontmatter)
        m == FrontmatterMatch(content)
    IN IF StartsWithFence(content)
       THEN IF m.last = 0
            THEN content
            ELSE ExpandReplacement(<<Fence, NL>> \o yamlString \o <<Fence>>,
                                   SubSeq(content, 1, m.last), <<>>,
                                   SubSeq(content, m.last + 1, Len(content)))
                 \o SubSeq(content, m.last + 1, Len(content))
       ELSE <<Fence, NL>> \o yamlString \o <<Fence, NL, NL>> \o content

\* ------------------------------------------------------------------------
\* DateUtils
\* ------------------------------------------------------------------------
\* formatCurrentDate() on the day now.
formatCurrentDate(now) == Str(<<now>>)

\* formatDate(date) for a Date object (js-yaml builds valid dates only).
formatDate(x) == IF x.k = "date" THEN Str(<<x.v[1]>>) ELSE Str(<<>>)

isValidDateString(x) == x.k = "str" /\ Len(x.v) = 1 /\ x.v[1] \in DaySet

\* ------------------------------------------------------------------------
\* DefaultValueAssigner
\* ------------------------------------------------------------------------
\* DEFAULT_VALUES of schema.definition.ts
DefaultStatus == <<"todo">>
DefaultPriority == <<"medium">>

\* String.prototype.trim on atoms
RECURSIVE TrimLeft(_)
TrimLeft(s) == IF s # <<>> /\ Head(s) = " " THEN TrimLeft(Tail(s)) ELSE s

RECURSIVE TrimRight(_)
TrimRight(s) ==
    IF s # <<>> /\ s[Len(s)] = " " THEN TrimRight(SubSeq(s, 1, Len(s) - 1)) ELSE s

extractTitleFromFilename(filename) ==
    LET noExt == IF filename # <<>> /\ filename[Len(filename)] = ".md"
                 THEN SubSeq(filename, 1, Len(filename) - 1)
                 ELSE filename
        spaced == [i \in 1..Len(noExt) |-> IF noExt[i] \in {"-", "_"} THEN " " ELSE noExt[i]]
    IN TrimRight(TrimLeft(spaced))

shouldSetDefaultPriority(settings) == settings.autoPopulateDefaults

\* Object.entries order is the record's order; each step is one if-block
\* of assignDefaults.
DefaultTitle(u, filename) ==
    IF ~Truthy(Get(u, "title"))
    THEN Set(u, "title", Str(extractTitleFromFilename(filename)))
    ELSE u

\* A normalization that turns a valid date string into a Date and a Date
\* into its day string.
DefaultCreatedDateFlip(u, now) ==
    IF ~Truthy(Get(u, "created_date"))
    THEN Set(u, "created_date", formatCurrentDate(now))
    ELSE IF Get(u, "created_date").k = "date"
    THEN Set(u, "created_date", formatDate(Get(u, "created_date")))
    ELSE IF isValidDateString(Get(u, "created_date"))
    THEN Set(u, "created_date", DateObj(Get(u, "created_date").v[1]))
    ELSE u

DefaultCreatedDate(u, now) ==
    IF ~Truthy(Get(u, "created_date"))
    THEN Set(u, "created_date", formatCurrentDate(now))
    ELSE IF Get(u, "created_date").k = "date"
    THEN Set(u, "created_date", formatDate(Get(u, "created_date")))
    ELSE u

DefaultStatusField(u, settings) ==
    IF ~Truthy(Get(u, "status"))
    THEN Set(u, "status",
             Str(IF settings.defaultStatus # <<>> THEN settings.defaultStatus ELSE DefaultStatus))
    ELSE u

DefaultPriorityField(u, settings) ==
    IF ~Truthy(Get(u, "priority")) /\ shouldSetDefaultPriority(settings)
    THEN Set(u, "priority",
             Str(IF settings.defaultPriority # <<>> THEN settings.defaultPriority
                 ELSE DefaultPriority))
    ELSE u

DefaultList(u, key) == IF Get(u, key).k # "arr" THEN Set(u, key, Arr(<<>>)) ELSE u

NormalizeDate(u, key) ==
    IF Truthy(Get(u, key)) /\ Get(u, key).k = "date"
    THEN Set(u, key, formatDate(Get(u, key)))
    ELSE u

assignDefaults(frontmatter, filename, settings, now) ==
    LET u1 == DefaultTitle(frontmatter, filename)
        u2 == DefaultCreatedDate(u1, now)
        u3 == DefaultStatusField(u2, settings)
        u4 == DefaultPriorityField(u3, settings)
        u5 == DefaultList(u4, "tags")
        u6 == DefaultList(u5, "dependencies")
        u7 == NormalizeDate(u6, "due_date")
    IN NormalizeDate(u7, "completed_date")

\* JSON.stringify of a value, as a value: a Date serializes as its ISO string.
JsonStringify(x) == IF x.k = "date" THEN Str(<<x.v[1], IsoMidnight>>) ELSE x

\* A comparison that looks only at the keys the original record carries.
getUpdatedFieldsOfOriginal(original, updated) ==
    SelectSeq([i \in 1..Len(original) |-> original[i].key],
              LAMBDA key : JsonStringify(Get(original, key)) # JsonStringify(Get(updated, key)))

\* FileEventHandler.getUpdatedFields: the keys of updated whose JSON differs.
getUpdatedFields(original, updated) ==
    SelectSeq([i \in 1..Len(updated) |-> updated[i].key],
              LAMBDA key : JsonStringify(Get(original, key)) # JsonStringify(Get(updated, key)))

\* ------------------------------------------------------------------------
\* Schema definition and SchemaValidator
\* ------------------------------------------------------------------------
CORE_REQUIRED_FIELDS == <<"atomic-task", "title", "created_date", "status">>

VALID_STATUS_VALUES == <<<<"todo">>, <<"in_progress">>, <<"blocked">>, <<"done">>>>

NoDefault == Undefined

Field(name, type, required, defaultValue, enumValues) ==
    [name |-> name, type |-> type, required |-> required,
     defaultValue |-> defaultValue, enumValues |-> enumValues]

CORE_SCHEMA_FIELDS ==
    << Field("atomic-task", "boolean", TRUE, NoDefault, <<>>),
       Field("title", "string", TRUE, NoDefault, <<>>),
       Field("created_date", "date", TRUE, NoDefault, <<>>),
       Field("status", "enum", TRUE, Str(<<"todo">>), VALID_STATUS_VALUES) >>

\* A custom field has the shape of Field with key for name, and an id. The
\* id of every shipped field is its key.
DEFAULT_CUSTOM_SCHEMA_FIELDS ==
    LET shipped ==
            << Field("priority", "enum", FALSE, Str(<<"medium">>),
                     <<<<"low">>, <<"medium">>, <<"high">>>>),
               Field("due_date", "date", FALSE, NoDefault, <<>>),
               Field("tags", "list", FALSE, Arr(<<>>), <<>>),
               Field("dependencies", "list", FALSE, Arr(<<>>), <<>>),
               Field("completed_date", "date", FALSE, NoDefault, <<>>) >>
    IN  [i \in 1..Len(shipped) |->
            [id |-> shipped[i].name, name |-> shipped[i].name, type |-> shipped[i].type,
             required |-> shipped[i].required, defaultValue |-> shipped[i].defaultValue,
             enumValues |-> shipped[i].enumValues]]

\* getCombinedSchemaFields without the copy of CORE_SCHEMA_FIELDS.
getCustomSchemaFieldsOnly(customFields) == customFields

getCombinedSchemaFields(customFields) == CORE_SCHEMA_FIELDS \o customFields

getRequiredFields(customFields) ==
    CORE_REQUIRED_FIELDS
    \o [i \in 1..Len(SelectSeq(customFields, LAMBDA f : f.required)) |->
            SelectSeq(customFields, LAMBDA f : f.required)[i].name]

\* Number(value) is not NaN
CoercesToNumber(x) ==
    CASE x.k = "num" -> TRUE
      [] x.k = "str" -> x.v = <<>> \/ (Len(x.v) = 1 /\ x.v[1] \in NumAtoms)
      [] x.k = "arr" -> x.v = <<>> \/ (Len(x.v) = 1 /\ x.v[1] \in NumAtoms)
      [] x.k = "undefined" -> FALSE
      [] OTHER -> TRUE

\* A ValidationError or ValidationWarning: the field it names and what its
\* message says of it (the severity follows from the list it is pushed to).
Issue(field, message) == [field |-> field, message |-> message]

\* validateFieldType: TRUE when the switch pushes an error for the field.
FieldTypeError(value, fieldType, enumValues) ==
    CASE fieldType = "boolean" -> value.k # "bool"
      [] fieldType \in {"string", "text"} -> value.k # "str"
      [] fieldType = "number" -> value.k # "num" /\ CoercesToNumber(value)
      [] fieldType = "date" ->
            value.k # "date" /\ value.k = "str" /\ value.v # <<>> /\ ~isValidDateString(value)
      [] fieldType \in {"array", "list"} -> value.k # "arr"
      [] fieldType = "enum" ->
            enumValues # <<>>
            /\ ~(value.k = "str" /\ \E i \in 1..Len(enumValues) : enumValues[i] = value.v)
      [] OTHER -> FALSE

\* The message validateFieldType pushes for a field of the type.
TypeMessage(fieldType) ==
    CASE fieldType = "boolean" -> "must be a boolean"
      [] fieldType \in {"string", "text"} -> "must be a string"
      [] fieldType = "number" -> "must be a number"
      [] fieldType = "date" -> "must be a valid date"
      [] fieldType \in {"array", "list"} -> "must be an array/list"
      [] OTHER -> "must be one of"

RequiredErrors(frontmatter, requiredFields) ==
    LET missing == SelectSeq(requiredFields,
                             LAMBDA f : \/ ~Has(frontmatter, f)
                                        \/ Get(frontmatter, f).k \in {"null", "undefined"}
                                        \/ Get(frontmatter, f) = Str(<<>>))
    IN [i \in 1..Len(missing) |-> Issue(missing[i], "is missing or empty")]

validateSchemaFields(frontmatter, schemaFields) ==
    LET wrong == SelectSeq(schemaFields,
                           LAMBDA f : /\ Get(frontmatter, f.name).k \notin {"undefined", "null"}
                                      /\ FieldTypeError(Get(frontmatter, f.name), f.type,
                                                        f.enumValues))
    IN [i \in 1..Len(wrong) |-> Issue(wrong[i].name, TypeMessage(wrong[i].type))]

\* parseDate(dateStr) < today at local midnight, for a valid date string.
DueInPast(due, now) == isValidDateString(due) /\ DayIndex(due.v[1]) < DayIndex(now)

\* validateLogicalRules with the due_date rule not asking for the status.
validateLogicalRulesDueAnyStatus(frontmatter, now) ==
    LET status == Get(frontmatter, "status")
        completed == Get(frontmatter, "completed_date")
        due == Get(frontmatter, "due_date")
        done == Str(<<"done">>)
    IN (IF Truthy(completed) /\ status # done
        THEN <<Issue("completed_date", "is set but status is not done")>> ELSE <<>>)
       \o (IF status = done /\ ~Truthy(completed)
           THEN <<Issue("completed_date", "status is done but is not set")>> ELSE <<>>)
       \o (IF Truthy(due) /\ DueInPast(due, now)
           THEN <<Issue("due_date", "is in the past")>> ELSE <<>>)

validateLogicalRules(frontmatter, now) ==
    LET status == Get(frontmatter, "status")
        completed == Get(frontmatter, "completed_date")
        due == Get(frontmatter, "due_date")
        done == Str(<<"done">>)
    IN (IF Truthy(completed) /\ status # done
        THEN <<Issue("completed_date", "is set but status is not done")>> ELSE <<>>)
       \o (IF status = done /\ ~Truthy(completed)
           THEN <<Issue("completed_date", "status is done but is not set")>> ELSE <<>>)
       \o (IF Truthy(due) /\ status # done /\ DueInPast(due, now)
           THEN <<Issue("due_date", "is in the past")>> ELSE <<>>)

\* The result object of validate as constructed at its first statement.
FreshResult == [isValid |-> TRUE, errors |-> <<>>, warnings |-> <<>>]

\* result.errors.push(...) without the assignment to result.isValid.
PushErrorKeepingFlag(result, error) == [result EXCEPT !.errors = Append(@, error)]

\* result.errors.push({field, ...}); result.isValid = false
PushError(result, error) ==
    [result EXCEPT !.errors = Append(@, error), !.isValid = FALSE]

\* result.warnings.push({field, ...})
PushWarning(result, warning) == [result EXCEPT !.warnings = Append(@, warning)]

RECURSIVE PushErrors(_, _)
PushErrors(result, errors) ==
    IF errors = <<>> THEN result
    ELSE PushErrors(PushError(result, Head(errors)), Tail(errors))

RECURSIVE PushWarnings(_, _)
PushWarnings(result, warnings) ==
    IF warnings = <<>> THEN result
    ELSE PushWarnings(PushWarning(result, Head(warnings)), Tail(warnings))

\* SchemaValidator.validate: errors and warnings in the order pushed; isValid is the flag the code clears at each error.
validate(frontmatter, customFields, now) ==
    IF ~Truthy(Get(frontmatter, "atomic-task"))
    THEN FreshResult
    ELSE LET schemaFields == getCombinedSchemaFields(customFields)
             requiredFields == getRequiredFields(customFields)
             afterRequired == PushErrors(FreshResult,
                                         RequiredErrors(frontmatter, requiredFields))
             afterTypes == PushErrors(afterRequired,
                                      validateSchemaFields(frontmatter, schemaFields))
         IN PushWarnings(afterTypes, validateLogicalRules(frontmatter, now))

\* ------------------------------------------------------------------------
\* The vault, its files and what an editor may save
\* ------------------------------------------------------------------------
MaxEdits == 2

Paths == {"fix-bug.md"}

\* TFile.name as atoms and TFile.extension
FileName(p) ==
    IF p = "fix-bug.md" THEN <<"fix", "-", "bug", ".md">>
    ELSE IF p = "_.md" THEN <<"_", ".md">>
    ELSE <<p>>

\* file.extension is md for every path of Paths
isMarkdownFile(p) == LET extension == "md" IN extension = "md"

NoFile == <<"ENOENT">>

Line(key, src) == <<key, Colon>> \o src \o <<NL>>

Doc(lines, body) == <<Fence, NL>> \o lines \o <<Fence>> \o body

CompleteLines(status) ==
    Line("title", <<"Fix", " ", "it">>) \o Line("created_date", <<DQuote, "2024-01-15", DQuote>>)
    \o Line("status", status) \o Line("priority", <<"high">>)
    \o Line("tags", <<"[]">>) \o Line("dependencies", <<"[]">>)

PlainNote == <<"Just", " ", "text", NL>>
MarkerString == Doc(Line("atomic-task", <<"yes">>) \o Line("title", <<"Idea">>), <<NL, "body", NL>>)
Malformed == Doc(Line("atomic-task", <<"true">>) \o <<"oops", NL>>, <<NL, "body", NL>>)
Incomplete == Doc(Line("atomic-task", <<"true">>), <<NL, NL, "body", NL>>)
Complete == Doc(Line("atomic-task", <<"true">>) \o CompleteLines(<<"todo">>), <<NL, "body", NL>>)
DollarTitle ==
    Doc(Line("atomic-task", <<"true">>) \o Line("title", <<Dollar, SQuote>>)
        \o Line("status", <<"todo">>), <<NL>>)

\* The texts a file may be created with, and the texts a later save by the
\* editor may store.
EditDocs ==
    LET NoMarker == Doc(Line("title", <<"Idea">>), <<NL, "body", NL>>)
        MarkerFalse == Doc(Line("atomic-task", <<"false">>), <<NL>>)
        DoneNoDate ==
            Doc(Line("atomic-task", <<"true">>) \o CompleteLines(<<"done">>), <<NL, "body", NL>>)
        RawDate ==
            Doc(Line("atomic-task", <<"true">>) \o Line("title", <<"Fix", " ", "it">>)
                \o Line("created_date", <<"2024-01-15">>) \o Line("status", <<"todo">>)
                \o Line("priority", <<"high">>) \o <<"tags", Colon, NL, SeqItem, "x", NL>>
                \o Line("dependencies", <<"[]">>), <<NL, "body", NL>>)
    IN {PlainNote, NoMarker, MarkerString, MarkerFalse, Malformed, Incomplete, Complete,
        DoneNoDate, RawDate, DollarTitle}

SaveDocs == {PlainNote, MarkerString, Incomplete, Complete}

\* ------------------------------------------------------------------------
\* What a run is observed to do (recorded for the properties below)
\* ------------------------------------------------------------------------
\* The text holds a frontmatter region that parses and whose atomic-task
\* value is the boolean true.
MarkerIsTrue(content) ==
    LET m == FrontmatterMatch(content)
        y == YamlLoad(m.body)
    IN m.last # 0 /\ y.ok /\ Has(y.rec, "atomic-task")
       /\ Get(y.rec, "atomic-task").k = "bool" /\ Get(y.rec, "atomic-task").v = <<"true">>

\* The text after the closing fence of the frontmatter region.
AfterRegion(content) ==
    SubSeq(content, FrontmatterMatch(content).last + 1, Len(content))

\* For a text that begins with a frontmatter region: the written text is the
\* fences around the serialized record, followed by what followed the region
\* in the text read.
FaithfulWrite(content, frontmatter, written) ==
    FrontmatterMatch(content).last # 0
        => written = <<Fence, NL>> \o YamlDump(frontmatter) \o <<Fence>> \o AfterRegion(content)

\* ------------------------------------------------------------------------
\* State
\* ------------------------------------------------------------------------
VARIABLES
    vault,       \* path -> text (NoFile before the file is created)
    lastWriter,  \* path -> who stored the current text: none, editor, pipeline
    edits,       \* number of editor saves so far
    today,       \* the current day
    settings,    \* TaskSystemPlugin.settings
    timers,      \* DebounceManager.timers: key -> timer id, 0 when absent
    scheduled,   \* host timers set and neither fired nor cleared
    runs,        \* debounced callbacks that started and have not finished
    last,        \* what the callback that finished in the last step was observed to do
    record,      \* the record handed to assignDefaults or to validate
    filename,    \* the file name handed to assignDefaults
    result,      \* what assignDefaults returned for the record
    again,       \* what assignDefaults returned for that result
    validation,  \* what validate returned for the record
    schema,      \* what getRequiredFields and getCombinedSchemaFields returned
    note,        \* the lines of the note that holds the sortable block
    state,       \* SortableBlock: the items of the component
    original,    \* the lines of the note before any gesture
    previous,    \* the lines of the note before the last gesture
    gestures,    \* the gestures made so far, oldest first
    unloaded,    \* TaskSystemPlugin.onunload has run
    data,        \* data.json: <<>> when loadData returns null, else <<the saved settings>>
    defaults,    \* the elements of the array DEFAULT_CUSTOM_SCHEMA_FIELDS in this session
    aliased,     \* settings.customSchemaFields is the array DEFAULT_CUSTOM_SCHEMA_FIELDS itself
    clicks,      \* number of settings-tab operations so far
    deleted      \* keys deleted in the settings tab and not added again there

pipelineVars == <<vault, lastWriter, edits, timers, scheduled, runs, last>>

defaultsVars == <<record, filename, result, again>>

validatorVars == <<validation, schema>>

sortableVars == <<note, state, original, previous, gestures>>

pluginVars == <<unloaded, data, defaults, aliased, clicks, deleted>>

vars == <<pipelineVars, today, settings, pluginVars, defaultsVars, validatorVars, sortableVars>>

NoRecord == <<>>

NoEntry ==
    [key |-> "", stale |-> FALSE, applies |-> FALSE, changed |-> FALSE, readFrom |-> "none",
     faithful |-> TRUE, wrote |-> "no", validated |-> FALSE, notes |-> {}]

SettingsSet ==
    {[enableValidation |-> ev, autoPopulateDefaults |-> ap, showSuccessNotifications |-> sn,
      defaultStatus |-> <<"todo">>, defaultPriority |-> <<"medium">>,
      customSchemaFields |-> DEFAULT_CUSTOM_SCHEMA_FIELDS] :
        ev \in BOOLEAN, ap \in BOOLEAN, sn \in BOOLEAN}

NoResult == <<[key |-> "", val |-> Undefined]>>

\* Nothing has happened yet in the pipeline.
PipelineStart ==
    /\ vault = [p \in Paths |-> NoFile]
    /\ lastWriter = [p \in Paths |-> "none"]
    /\ edits = 0
    /\ timers = [p \in Paths |-> 0]
    /\ scheduled = {}
    /\ runs = {}
    /\ last = NoEntry

\* The plugin is loaded.
PluginIdle ==
    /\ unloaded = FALSE
    /\ data = <<settings>>
    /\ defaults = DEFAULT_CUSTOM_SCHEMA_FIELDS
    /\ aliased = FALSE
    /\ clicks = 0
    /\ deleted = {}

\* No record is being defaulted.
DefaultsIdle ==
    /\ record = NoRecord
    /\ filename = ""
    /\ result = NoResult
    /\ again = NoResult

NoValidation ==
    [isValid |-> TRUE, errors |-> <<[field |-> "none", message |-> "none"]>>,
     warnings |-> <<[field |-> "none", message |-> "none"]>>]

NoSchema == [required |-> <<>>, combined |-> <<>>]

\* Neither validate nor the schema functions have been called.
ValidatorIdle == validation = NoValidation /\ schema = NoSchema

\* No note with a sortable block is open.
SortableIdle ==
    /\ note = <<>>
    /\ state = <<>>
    /\ original = <<>>
    /\ previous = <<>>
    /\ gestures = <<>>

Init ==
    /\ PipelineStart
    /\ today = Days[2]
    /\ settings \in SettingsSet
    /\ PluginIdle
    /\ DefaultsIdle
    /\ ValidatorIdle
    /\ SortableIdle

\* ------------------------------------------------------------------------
\* DebounceManager
\* ------------------------------------------------------------------------
\* setTimeout returns an id that no live timer, no running callback and no
\* entry of the map carries.
FreshTimerId ==
    LET used == {t.id : t \in scheduled} \cup {r.id : r \in runs} \cup {timers[p] : p \in Paths}
    IN CHOOSE i \in 1..(Cardinality(used) + 1) : i \notin used /\ \A j \in 1..(i - 1) : j \in used

\* debounceAsync(key, callback, delay): clearTimeout of the timer the map
\* holds for the key (nothing happens when that one has fired already),
\* setTimeout, timers.set.  stale marks a timer that stays scheduled although
\* a later notification for its key has arrived.
debounceAsync(key) ==
    LET kept == {t \in scheduled : t.id # timers[key]}
        timer == FreshTimerId
    IN /\ scheduled' = {IF t.key = key THEN [t EXCEPT !.stale = TRUE] ELSE t : t \in kept}
                       \cup {[id |-> timer, key |-> key, stale |-> FALSE]}
       /\ timers' = [timers EXCEPT ![key] = timer]

\* The finally block of the timer callback: timers.delete(key).
timersDelete(key) == [timers EXCEPT ![key] = 0]

\* ------------------------------------------------------------------------
\* FileEventHandler
\* ------------------------------------------------------------------------
NewRun(t) ==
    [id |-> t.id, key |-> t.key, stale |-> t.stale, pc |-> "read", applies |-> FALSE,
     changed |-> FALSE, readFrom |-> "none", updated |-> NoRecord, faithful |-> TRUE,
     newContent |-> <<>>]

Entry(r, wrote, validated, notes) ==
    [key |-> r.key, stale |-> r.stale, applies |-> r.applies, changed |-> r.changed,
     readFrom |-> r.readFrom, faithful |-> r.faithful,
     wrote |-> wrote, validated |-> validated, notes |-> notes]

\* The timer id of a run that a command started, which no timer carries.
CommandRun == 0

\* The callback returns: processFile is over and the finally block runs.
\* A command returns to its caller, no timer callback is involved.
Finish(r, entry) ==
    /\ runs' = runs \ {r}
    /\ last' = entry
    /\ timers' = IF r.id = CommandRun THEN timers ELSE timersDelete(r.key)

\* vault.on(create): onFileCreated
OnFileCreated(p, d) ==
    /\ ~unloaded
    /\ edits < MaxEdits
    /\ vault[p] = NoFile
    /\ vault' = [vault EXCEPT ![p] = d]
    /\ lastWriter' = [lastWriter EXCEPT ![p] = "editor"]
    /\ edits' = edits + 1
    /\ IF isMarkdownFile(p)
       THEN debounceAsync(p)
       ELSE UNCHANGED <<timers, scheduled>>
    /\ last' = NoEntry
    /\ UNCHANGED <<today, settings, pluginVars, runs, defaultsVars, validatorVars, sortableVars>>

\* vault.on(modify) for a save by the editor: onFileModified
OnFileModified(p, d) ==
    /\ ~unloaded
    /\ edits < MaxEdits
    /\ vault[p] # NoFile
    /\ d # vault[p]
    /\ vault' = [vault EXCEPT ![p] = d]
    /\ lastWriter' = [lastWriter EXCEPT ![p] = "editor"]
    /\ edits' = edits + 1
    /\ IF isMarkdownFile(p)
       THEN debounceAsync(p)
       ELSE UNCHANGED <<timers, scheduled>>
    /\ last' = NoEntry
    /\ UNCHANGED <<today, settings, pluginVars, runs, defaultsVars, validatorVars, sortableVars>>

\* The host fires a timer: the callback starts processFile, which awaits
\* vault.read inside readFrontmatter.
TimerFire(t) ==
    /\ t \in scheduled
    /\ scheduled' = scheduled \ {t}
    /\ runs' = runs \cup {NewRun(t)}
    /\ last' = NoEntry
    /\ UNCHANGED <<vault, lastWriter, edits, today, settings, pluginVars, timers, defaultsVars, validatorVars, sortableVars>>

\* What the validation branch of validateAndPopulate sends to the sink.
ValidationNotes(frontmatter) ==
    LET validationResult == validate(frontmatter, settings.customSchemaFields, today)
    IN IF ~validationResult.isValid \/ Len(validationResult.warnings) > 0
       THEN {"showValidationWarnings"}
       ELSE IF settings.showSuccessNotifications THEN {"showSuccessMessage"} ELSE {}

\* vault.read returns to readFrontmatter; processFile applies the gate and
\* validateAndPopulate runs up to its next await (the read of the writer)
\* or to its end.
ReadDone(r) ==
    /\ r \in runs
    /\ r.pc = "read"
    /\ LET content == vault[r.key]
           frontmatter == readFrontmatter(content)
           updatedFrontmatter == assignDefaults(frontmatter.rec, FileName(r.key), settings, today)
           fieldsUpdated == getUpdatedFields(frontmatter.rec, updatedFrontmatter)
           seen == [r EXCEPT !.applies = MarkerIsTrue(content),
                             !.readFrom = lastWriter[r.key],
                             !.changed = /\ ~frontmatter.isNull
                                         /\ settings.autoPopulateDefaults
                                         /\ updatedFrontmatter # frontmatter.rec]
       IN IF frontmatter.isNull \/ ~isAtomicNote(frontmatter.rec)
          THEN Finish(r, Entry(seen, "no", FALSE, {}))
          ELSE IF settings.autoPopulateDefaults /\ Len(fieldsUpdated) > 0
          THEN /\ runs' = (runs \ {r})
                          \cup {[seen EXCEPT !.pc = "wread", !.updated = updatedFrontmatter]}
               /\ last' = NoEntry
               /\ UNCHANGED timers
          ELSE IF settings.enableValidation
          THEN Finish(r, Entry(seen, "no", TRUE, ValidationNotes(frontmatter.rec)))
          ELSE Finish(r, Entry(seen, "no", FALSE, {}))
    /\ UNCHANGED <<vault, lastWriter, edits, today, settings, pluginVars, scheduled, defaultsVars, validatorVars, sortableVars>>

\* vault.read returns to writeFrontmatter, which builds the new text and
\* awaits vault.modify.
WriteRead(r) ==
    /\ r \in runs
    /\ r.pc = "wread"
    /\ LET content == vault[r.key]
           newContent == writeFrontmatter(content, r.updated)
       IN runs' = (runs \ {r})
                  \cup {[r EXCEPT !.pc = "modify", !.newContent = newContent,
                                  !.updated = NoRecord,
                                  !.faithful = FaithfulWrite(content, r.updated, newContent)]}
    /\ last' = NoEntry
    /\ UNCHANGED <<vault, lastWriter, edits, today, settings, pluginVars, timers, scheduled, defaultsVars, validatorVars, sortableVars>>

\* vault.modify stores the text; the vault announces the change, which is
\* onFileModified for the same path while the handlers are registered.
ModifyDone(r) ==
    /\ r \in runs
    /\ r.pc = "modify"
    /\ vault' = [vault EXCEPT ![r.key] = r.newContent]
    /\ lastWriter' = [lastWriter EXCEPT ![r.key] = "pipeline"]
    /\ IF unloaded THEN UNCHANGED <<timers, scheduled>> ELSE debounceAsync(r.key)
    /\ runs' = (runs \ {r}) \cup {[r EXCEPT !.pc = "written", !.newContent = <<>>]}
    /\ last' = NoEntry
    /\ UNCHANGED <<edits, today, settings, pluginVars, defaultsVars, validatorVars, sortableVars>>

\* ModifyFail without the finally block: the callback ends and the map
\* keeps its entry for the key.
ModifyFailKeepingKey(r) ==
    /\ r \in runs
    /\ r.pc = "modify"
    /\ runs' = runs \ {r}
    /\ last' = Entry(r, "failed", FALSE, {"showErrorMessage"})
    /\ UNCHANGED <<vault, lastWriter, edits, today, settings, pluginVars, timers, scheduled, defaultsVars,
                   validatorVars, sortableVars>>

\* vault.modify rejects: writeFrontmatter rethrows, validateAndPopulate
\* reports the error and returns.
ModifyFail(r) ==
    /\ r \in runs
    /\ r.pc = "modify"
    /\ Finish(r, Entry(r, "failed", FALSE, {"showErrorMessage"}))
    /\ UNCHANGED <<vault, lastWriter, edits, today, settings, pluginVars, scheduled, defaultsVars, validatorVars, sortableVars>>

\* writeFrontmatter has returned: wasUpdated, the auto-populate notice, no
\* validation in this pass; for the convert command, its notice.
AfterWrite(r) ==
    /\ r \in runs
    /\ r.pc = "written"
    /\ Finish(r, Entry(r, "ok", FALSE,
                       IF r.id = CommandRun THEN {"showInfoMessage"}
                       ELSE {"showAutoPopulateMessage"}))
    /\ UNCHANGED <<vault, lastWriter, edits, today, settings, pluginVars, scheduled, defaultsVars, validatorVars, sortableVars>>

Next ==
    \/ \E p \in Paths : \E d \in EditDocs : OnFileCreated(p, d)
    \/ \E p \in Paths : \E d \in SaveDocs : OnFileModified(p, d)
    \/ \E t \in scheduled : TimerFire(t)
    \/ \E r \in runs : ReadDone(r)
    \/ \E r \in runs : WriteRead(r)
    \/ \E r \in runs : ModifyDone(r)
    \/ \E r \in runs : ModifyFail(r)
    \/ \E r \in runs : AfterWrite(r)

Spec == Init /\ [][Next]_vars

\* ------------------------------------------------------------------------
\* The convert command and the unloading of the plugin
\* ------------------------------------------------------------------------
\* convertCurrentFileToAtomicTask on the active file: it awaits vault.read
\* inside readFrontmatter.
Convert(p) ==
    /\ ~unloaded
    /\ edits < MaxEdits
    /\ vault[p] # NoFile
    /\ isMarkdownFile(p)
    /\ \A r \in runs : r.id # CommandRun
    /\ runs' = runs \cup {[NewRun([id |-> CommandRun, key |-> p, stale |-> FALSE])
                              EXCEPT !.pc = "cread"]}
    /\ edits' = edits + 1
    /\ last' = NoEntry
    /\ UNCHANGED <<vault, lastWriter, today, settings, pluginVars, timers, scheduled,
                   defaultsVars, validatorVars, sortableVars>>

\* vault.read returns to readFrontmatter: null becomes the empty record, the
\* marker is set, assignDefaults runs and writeFrontmatter is called, which
\* awaits its own vault.read.
ConvertRead(r) ==
    /\ r \in runs
    /\ r.pc = "cread"
    /\ LET content == vault[r.key]
           read == readFrontmatter(content)
           frontmatter == Set(IF read.isNull THEN <<>> ELSE read.rec, "atomic-task", Bool(TRUE))
           updatedFrontmatter == assignDefaults(frontmatter, FileName(r.key), settings, today)
       IN runs' = (runs \ {r})
                  \cup {[r EXCEPT !.pc = "wread", !.updated = updatedFrontmatter,
                                  !.applies = MarkerIsTrue(content),
                                  !.readFrom = lastWriter[r.key],
                                  !.changed = updatedFrontmatter # read.rec]}
    /\ last' = NoEntry
    /\ UNCHANGED <<vault, lastWriter, edits, today, settings, pluginVars, timers, scheduled,
                   defaultsVars, validatorVars, sortableVars>>

\* TaskSystemPlugin.onunload: DebounceManager.cancelAll clears the timers
\* the map holds and empties the map; the host removes the event handlers
\* and the commands.
onunload ==
    /\ ~unloaded
    /\ unloaded' = TRUE
    /\ scheduled' = {t \in scheduled : \A p \in Paths : timers[p] # t.id}
    /\ timers' = [p \in Paths |-> 0]
    /\ last' = NoEntry
    /\ UNCHANGED <<vault, lastWriter, edits, runs, today, settings, data, defaults, aliased,
                   clicks, deleted, defaultsVars, validatorVars, sortableVars>>

\* The pipeline with validation on and success notices off, auto-populate
\* on or off.
InitCommands ==
    /\ Init
    /\ settings.enableValidation
    /\ ~settings.showSuccessNotifications

NextCommands ==
    \/ Next
    \/ \E p \in Paths : Convert(p)
    \/ \E r \in runs : ConvertRead(r)
    \/ onunload

SpecCommands == InitCommands /\ [][NextCommands]_vars

\* ------------------------------------------------------------------------
\* Settings: loadSettings, migrateSettings and the custom fields of the
\* settings tab
\* ------------------------------------------------------------------------
MaxClicks == 2

DEFAULT_SETTINGS ==
    [enableValidation |-> TRUE, autoPopulateDefaults |-> TRUE,
     showSuccessNotifications |-> FALSE, defaultStatus |-> <<"todo">>,
     defaultPriority |-> <<"medium">>, customSchemaFields |-> DEFAULT_CUSTOM_SCHEMA_FIELDS]

\* migrateSettings on a custom field list, defaultFields being the elements
\* of the array DEFAULT_CUSTOM_SCHEMA_FIELDS at that moment and
\* isDefaultArray telling that the list is that very array. The keys of the
\* list are collected once, before the loop over the default fields.
migrateSettings(customSchemaFields, isDefaultArray, defaultFields) ==
    LET empty == Len(customSchemaFields) = 0
        initialized == IF empty THEN defaultFields ELSE customSchemaFields
        existingFieldKeys == {initialized[i].name : i \in 1..Len(initialized)}
        missing == SelectSeq(defaultFields,
                             LAMBDA defaultField : defaultField.name \notin existingFieldKeys)
    IN  [customSchemaFields |-> initialized \o missing,
         aliased |-> isDefaultArray /\ ~empty,
         migrationNeeded |-> empty \/ Len(missing) > 0]

\* loadSettings: Object.assign({}, DEFAULT_SETTINGS, await loadData()), then
\* migrateSettings, which saves when it changed the list. Saved data holds
\* every setting, so the merge yields the saved settings when there are any;
\* without data the list is the array DEFAULT_CUSTOM_SCHEMA_FIELDS itself.
loadSettings(defaultFields) ==
    LET merged == IF data = <<>>
                  THEN [DEFAULT_SETTINGS EXCEPT !.customSchemaFields = defaultFields]
                  ELSE data[1]
        migrated == migrateSettings(merged.customSchemaFields, data = <<>>, defaultFields)
        loaded == [merged EXCEPT !.customSchemaFields = migrated.customSchemaFields]
    IN  /\ settings' = loaded
        /\ aliased' = migrated.aliased
        /\ defaults' = defaultFields
        /\ data' = IF migrated.migrationNeeded THEN <<loaded>> ELSE data

\* The host reports that data.json was written from outside (a sync tool
\* storing the file again); the settings tab is not rendered again.
onExternalSettingsChange ==
    /\ ~unloaded
    /\ loadSettings(defaults)
    /\ UNCHANGED <<pipelineVars, today, unloaded, clicks, deleted, defaultsVars, validatorVars,
                   sortableVars>>

\* The plugin is enabled again: the module is evaluated anew, so the array
\* DEFAULT_CUSTOM_SCHEMA_FIELDS holds the shipped fields, and onload calls
\* loadSettings.
onload ==
    /\ unloaded
    /\ unloaded' = FALSE
    /\ loadSettings(DEFAULT_CUSTOM_SCHEMA_FIELDS)
    /\ UNCHANGED <<pipelineVars, today, clicks, deleted, defaultsVars, validatorVars,
                   sortableVars>>

\* What the user can leave in a CustomFieldModal before pressing Save. The
\* key input stores value.toLowerCase().replace(/[^a-z0-9_]/g, ''), so a
\* key is a text over a-z, 0-9 and _; 'atomic-task' cannot be entered.
ModalInputs ==
    [displayName : {"", "Estimate"},
     key : {"", "estimate", "priority", "status"},
     type : {"number", "enum"},
     enumValues : {<<>>, <<<<"small">>, <<"large">>>>}]

\* CustomFieldModal.validateField for the modal's field and display name.
validateField(displayName, field, customSchemaFields) ==
    /\ displayName # ""
    /\ field.name # ""
    /\ ~\E i \in 1..Len(customSchemaFields) :
            customSchemaFields[i].name = field.name /\ customSchemaFields[i].id # field.id
    /\ field.name \notin {CORE_SCHEMA_FIELDS[i].name : i \in 1..Len(CORE_SCHEMA_FIELDS)}
    /\ ~(field.type = "enum" /\ Len(field.enumValues) = 0)

\* The tail of every onSave callback and of Delete: the list of the settings
\* has become customSchemaFields, then saveSettings. When the list is the
\* array DEFAULT_CUSTOM_SCHEMA_FIELDS, that array has changed with it.
StoreFields(customSchemaFields) ==
    /\ settings' = [settings EXCEPT !.customSchemaFields = customSchemaFields]
    /\ data' = <<[settings EXCEPT !.customSchemaFields = customSchemaFields]>>
    /\ defaults' = IF aliased THEN customSchemaFields ELSE defaults
    /\ UNCHANGED aliased

\* Add field, fill the modal, Save: the new field has the id
\* field_<Date.now()> and is pushed when validateField accepts it.
AddField(input) ==
    /\ ~unloaded
    /\ clicks < MaxClicks
    /\ clicks' = clicks + 1
    /\ LET id == <<"field_1", "field_2", "field_3", "field_4">>[clicks + 1]
           field == [id |-> id, name |-> input.key, type |-> input.type, required |-> FALSE,
                     defaultValue |-> NoDefault, enumValues |-> input.enumValues]
       IN  IF validateField(input.displayName, field, settings.customSchemaFields)
           THEN /\ StoreFields(Append(settings.customSchemaFields, field))
                /\ deleted' = deleted \ {field.name}
           ELSE UNCHANGED <<settings, data, defaults, aliased, deleted>>
    /\ UNCHANGED <<pipelineVars, today, unloaded, defaultsVars, validatorVars, sortableVars>>

\* Edit on the row of index, change the modal, Save: the modal works on a
\* copy of the row's field, which keeps the id, and the list element at the
\* index is replaced when validateField accepts the copy.
EditField(index, input) ==
    /\ ~unloaded
    /\ clicks < MaxClicks
    /\ index \in 1..Len(settings.customSchemaFields)
    /\ clicks' = clicks + 1
    /\ LET existingField == settings.customSchemaFields[index]
           editedField == [existingField EXCEPT !.name = input.key, !.type = input.type,
                                                !.enumValues = input.enumValues]
       IN  IF validateField(input.displayName, editedField, settings.customSchemaFields)
           THEN /\ StoreFields([settings.customSchemaFields EXCEPT ![index] = editedField])
                /\ deleted' = deleted \ {editedField.name}
           ELSE UNCHANGED <<settings, data, defaults, aliased, deleted>>
    /\ UNCHANGED <<pipelineVars, today, unloaded, defaultsVars, validatorVars, sortableVars>>

\* Delete on the row of index, confirmed: splice(index, 1), saveSettings.
DeleteField(index) ==
    /\ ~unloaded
    /\ clicks < MaxClicks
    /\ index \in 1..Len(settings.customSchemaFields)
    /\ clicks' = clicks + 1
    /\ LET customSchemaFields == settings.customSchemaFields
           spliced == SubSeq(customSchemaFields, 1, index - 1)
                      \o SubSeq(customSchemaFields, index + 1, Len(customSchemaFields))
       IN  /\ StoreFields(spliced)
           /\ deleted' = IF \E i \in 1..Len(spliced) :
                                spliced[i].name = customSchemaFields[index].name
                         THEN deleted
                         ELSE deleted \cup {customSchemaFields[index].name}
    /\ UNCHANGED <<pipelineVars, today, unloaded, defaultsVars, validatorVars, sortableVars>>

\* The plugin has been loaded, on a fresh install (no data.json, the list is
\* the array DEFAULT_CUSTOM_SCHEMA_FIELDS) or on saved default settings.
InitSettings ==
    /\ PipelineStart
    /\ today = Days[2]
    /\ settings = DEFAULT_SETTINGS
    /\ unloaded = FALSE
    /\ aliased \in BOOLEAN
    /\ data = IF aliased THEN <<>> ELSE <<settings>>
    /\ defaults = DEFAULT_CUSTOM_SCHEMA_FIELDS
    /\ clicks = 0
    /\ deleted = {}
    /\ DefaultsIdle
    /\ ValidatorIdle
    /\ SortableIdle

NextSettings ==
    \/ \E input \in ModalInputs : AddField(input)
    \/ \E index \in 1..(Len(DEFAULT_CUSTOM_SCHEMA_FIELDS) + MaxClicks), input \in ModalInputs :
            EditField(index, input)
    \/ \E index \in 1..(Len(DEFAULT_CUSTOM_SCHEMA_FIELDS) + MaxClicks) : DeleteField(index)
    \/ onExternalSettingsChange
    \/ onunload
    \/ onload

SpecSettings == InitSettings /\ [][NextSettings]_vars

\* ------------------------------------------------------------------------
\* Properties of the pipeline
\* ------------------------------------------------------------------------
ValidationNoteKinds == {"showValidationWarnings", "showSuccessMessage"}

\* A callback finished in the last step.
Finished == last # NoEntry

\* C1: a run that read a text whose frontmatter is missing, unparseable, or
\* whose atomic-task value is not the boolean true never reaches the writer
\* (no vault.modify is issued) and ends without validating and without
\* sending anything to the notification sink, whatever the settings are.
MasterGate ==
    /\ \A r \in runs : r.pc \in {"wread", "modify", "written"} => r.applies
    /\ (Finished /\ ~last.applies)
           => (last.wrote = "no" /\ ~last.validated /\ last.notes = {})

\* C1 witness: a run ended on a text whose marker is a non-boolean, truthy
\* value, with auto-populate and validation enabled.
MasterGateWitness ==
    /\ Finished /\ ~last.applies
    /\ vault[last.key] = MarkerString
    /\ settings.autoPopulateDefaults /\ settings.enableValidation

\* C2: each debounce key has at most one timer that is scheduled and has
\* not fired.
OnePendingTimerPerKey ==
    \A p \in Paths : Cardinality({t \in scheduled : t.key = p}) <= 1

\* C3: at most one run of processFile per path is in progress.
OneRunPerKey ==
    \A p \in Paths : Cardinality({r \in runs : r.key = p}) <= 1

\* C4: a timer that a later notification for its key found pending never
\* invokes the pipeline.
SupersededTimerNeverRuns == \A r \in runs : ~r.stale

\* What validate returns for the text a pass that wrote nothing has read
\* (the text is still in the vault in the state in which the pass ends).
ResultOfLast ==
    validate(readFrontmatter(vault[last.key]).rec, settings.customSchemaFields, today)

HasIssues(validationResult) ==
    ~validationResult.isValid \/ Len(validationResult.warnings) > 0

\* C5 as stated: in a pass on an applicable document, a change by
\* assignDefaults means a write and no validation; no change means no write
\* and, with validation enabled, a validation whose result is sent to the
\* notification sink; no pass writes and validates.
TwoPhaseAsStated ==
    (Finished /\ last.applies) =>
        /\ last.changed =>
              (last.wrote # "no" /\ ~last.validated /\ last.notes \cap ValidationNoteKinds = {})
        /\ ~last.changed =>
              /\ last.wrote = "no"
              /\ settings.enableValidation =>
                    (last.validated /\ last.notes \cap ValidationNoteKinds # {})
        /\ ~(last.wrote # "no" /\ last.validated)

\* C5 amended: as stated, except that the result of the validation reaches
\* the notification sink only when it carries an error or a warning
\* (showValidationWarnings) or when success notifications are enabled
\* (showSuccessMessage); a clean result is otherwise dropped, and with
\* validation disabled nothing is validated or sent.
TwoPhase ==
    (Finished /\ last.applies) =>
        /\ last.changed =>
              (last.wrote # "no" /\ ~last.validated /\ last.notes \cap ValidationNoteKinds = {})
        /\ ~last.changed =>
              /\ last.wrote = "no"
              /\ last.validated = settings.enableValidation
              /\ last.notes =
                    IF ~settings.enableValidation THEN {}
                    ELSE IF HasIssues(ResultOfLast) THEN {"showValidationWarnings"}
                    ELSE IF settings.showSuccessNotifications THEN {"showSuccessMessage"}
                    ELSE {}
        /\ ~(last.wrote # "no" /\ last.validated)

\* C5 witness: a pass validated an unchanged applicable record, found it
\* clean and sent nothing, success notifications being off.
TwoPhaseWitness ==
    /\ Finished /\ last.applies /\ ~last.changed
    /\ last.validated /\ last.notes = {}
    /\ ~HasIssues(ResultOfLast)

\* C6: a run that reads the text the pipeline itself has written finds
\* nothing for assignDefaults to change.
WriteConverges ==
    /\ \A r \in runs : r.readFrom = "pipeline" => ~r.changed
    /\ last.readFrom = "pipeline" => ~last.changed

\* C9: what writeFrontmatter hands to vault.modify is the serialized record
\* between the fences followed by exactly the text that followed the region
\* in the text it read.
WriteKeepsOutside ==
    /\ \A r \in runs : r.faithful
    /\ last.faithful

\* ------------------------------------------------------------------------
\* DefaultValueAssigner.assignDefaults as a function of its inputs
\* ------------------------------------------------------------------------
WithField(r, key, val) == IF val = Undefined THEN r ELSE Append(r, [key |-> key, val |-> val])

TitleInputs == {Undefined, Str(<<"Fix", " ", "it">>)}

\* The records yaml.load can hand to assignDefaults, keys in document order.
RecordInputs ==
    {WithField(WithField(WithField(WithField(<<>>, "atomic-task", m), "title", t),
                         "created_date", c), "tags", g) :
        m \in {Undefined, Bool(TRUE), Str(<<"yes">>)},
        t \in TitleInputs,
        c \in {Undefined, Null, Str(<<>>), Str(<<"2024-01-15">>), Str(<<"soon">>),
               DateObj("2024-01-15"), Num("0"), Num("5"), Bool(FALSE)},
        g \in {Undefined, Arr(<<"x">>), Str(<<"work">>)}}

\* A field the user added in the settings tab.
EstimateField == Field("estimate", "number", FALSE, Num("5"), <<>>)

\* The custom field lists the settings can hold: the shipped one, the
\* shipped one with a field added, the shipped one with tags made required.
CustomFieldLists ==
    {DEFAULT_CUSTOM_SCHEMA_FIELDS,
     DEFAULT_CUSTOM_SCHEMA_FIELDS \o <<EstimateField>>,
     [i \in 1..Len(DEFAULT_CUSTOM_SCHEMA_FIELDS) |->
        IF DEFAULT_CUSTOM_SCHEMA_FIELDS[i].name = "tags"
        THEN [DEFAULT_CUSTOM_SCHEMA_FIELDS[i] EXCEPT !.required = TRUE]
        ELSE DEFAULT_CUSTOM_SCHEMA_FIELDS[i]]}

\* Settings as far as assignDefaults and validate read them.
FunctionSettings ==
    {[s EXCEPT !.customSchemaFields = cf] :
        s \in {x \in SettingsSet : x.enableValidation /\ ~x.showSuccessNotifications},
        cf \in CustomFieldLists}

InitDefaults ==
    /\ PipelineStart
    /\ today \in {Days[2], Days[3]}
    /\ settings \in FunctionSettings
    /\ PluginIdle
    /\ record \in RecordInputs
    /\ filename \in {"fix-bug.md", "_.md"}
    /\ result = NoResult
    /\ again = NoResult
    /\ ValidatorIdle
    /\ SortableIdle

\* One call of assignDefaults(record, file.name, settings).
ApplyDefaults ==
    /\ result = NoResult
    /\ result' = assignDefaults(record, FileName(filename), settings, today)
    /\ UNCHANGED <<pipelineVars, today, settings, pluginVars, record, filename, again, validatorVars,
                   sortableVars>>

\* assignDefaults called on what it returned, same file name and settings.
ApplyDefaultsAgain ==
    /\ result # NoResult
    /\ again = NoResult
    /\ again' = assignDefaults(result, FileName(filename), settings, today)
    /\ UNCHANGED <<pipelineVars, today, settings, pluginVars, record, filename, result, validatorVars,
                   sortableVars>>

NextDefaults == ApplyDefaults \/ ApplyDefaultsAgain

SpecDefaults == InitDefaults /\ [][NextDefaults]_vars

\* ------------------------------------------------------------------------
\* SchemaValidator.validate and the schema functions on their own
\* ------------------------------------------------------------------------
\* The records yaml.load can hand to validate, keys in document order: the
\* marker in each of its kinds, a date that is valid or not, a status in or
\* out of the enum, a list empty or not, a number, a numeric string and a
\* string that is not numeric.
ValidateInputs ==
    {WithField(WithField(WithField(WithField(WithField(WithField(WithField(WithField(<<>>,
        "atomic-task", m), "title", t), "created_date", c), "status", st),
        "completed_date", cd), "due_date", du), "tags", g), "estimate", e) :
        m \in {Undefined, Bool(TRUE), Bool(FALSE), Null, Str(<<"yes">>), Num("5")},
        t \in TitleInputs,
        c \in {Undefined, Str(<<"2024-01-15">>), Str(<<"soon">>)},
        st \in {Undefined, Str(<<"todo">>), Str(<<"done">>), Str(<<"bogus">>)},
        cd \in {Undefined, Str(<<"2024-01-15">>)},
        du \in {Undefined, Str(<<"2024-01-15">>)},
        g \in {Undefined, Arr(<<>>), Arr(<<"x">>)},
        e \in {Undefined, Num("5"), Str(<<"5">>), Str(<<"abc">>)}}

InitValidate ==
    /\ PipelineStart
    /\ today = Days[2]
    /\ settings \in {s \in FunctionSettings : s.autoPopulateDefaults}
    /\ PluginIdle
    /\ record \in ValidateInputs
    /\ filename = ""
    /\ result = NoResult
    /\ again = NoResult
    /\ ValidatorIdle
    /\ SortableIdle

\* One call of SchemaValidator.validate(frontmatter, settings.customSchemaFields).
ApplyValidate ==
    /\ validation = NoValidation
    /\ validation' = validate(record, settings.customSchemaFields, today)
    /\ UNCHANGED <<pipelineVars, today, settings, pluginVars, defaultsVars, schema, sortableVars>>

\* One call each of getRequiredFields and getCombinedSchemaFields with the
\* custom fields of the settings.
ApplySchema ==
    /\ schema = NoSchema
    /\ schema' = [required |-> getRequiredFields(settings.customSchemaFields),
                  combined |-> getCombinedSchemaFields(settings.customSchemaFields)]
    /\ UNCHANGED <<pipelineVars, today, settings, pluginVars, defaultsVars, validation, sortableVars>>

NextValidate == ApplyValidate \/ ApplySchema

SpecValidate == InitValidate /\ [][NextValidate]_vars

\* ------------------------------------------------------------------------
\* sortable-list: the code block processor, SortableBlock and writeBack
\* ------------------------------------------------------------------------
MaxGestures == 2

\* A line is a sequence of atoms: a bullet atom, a checkbox token atom and
\* the atoms of the text, each optional.
\* CodeFence stands for the three grave accents of a code fence.
CodeFence == "CODEFENCE"
OpenFence == <<CodeFence, "sortable">>
CloseFence == <<CodeFence>>

\* Array.prototype.slice(from, to) and slice(from), indices from 0; an end
\* before the start gives the empty array.
Slice(xs, from, to) == SubSeq(xs, from + 1, to)

SliceFrom(xs, from) == SubSeq(xs, from + 1, Len(xs))

\* ctx.getSectionInfo(el): the indices, from 0, of the opening and of the
\* closing fence line of the block.
getSectionInfo(lines) ==
    LET open == CHOOSE i \in 1..Len(lines) : lines[i] = OpenFence
        close == CHOOSE j \in (open + 1)..Len(lines) :
                     lines[j] = CloseFence /\ \A m \in (open + 1)..(j - 1) : lines[m] # CloseFence
    IN [lineStart |-> open - 1, lineEnd |-> close - 1]

\* The source the host hands to the processor: the lines between the fences.
BlockSource(lines) ==
    LET info == getSectionInfo(lines)
    IN Slice(lines, info.lineStart + 1, info.lineEnd)

\* l.trim().length > 0
NotBlank(line) == \E i \in 1..Len(line) : line[i] # " "

\* The match of one raw line against the bullet / checkbox expression.
ParseLine(line) ==
    IF Len(line) >= 1 /\ line[1] \in {"- ", "* ", "+ "}
    THEN IF Len(line) >= 2 /\ line[2] \in {"[ ] ", "[x] ", "[X] "}
         THEN [bullet |-> line[1],
               checkbox |-> IF line[2] = "[ ] " THEN "unchecked" ELSE "checked",
               text |-> SubSeq(line, 3, Len(line))]
         ELSE [bullet |-> line[1], checkbox |-> "none", text |-> Tail(line)]
    ELSE [bullet |-> "", checkbox |-> "none", text |-> line]

\* items: the parsed non-blank lines of the source
ParseItems(source) ==
    LET rawLines == SelectSeq(source, NotBlank)
    IN [i \in 1..Len(rawLines) |-> ParseLine(rawLines[i])]

tokenFor(c) == IF c = "none" THEN <<>> ELSE IF c = "checked" THEN <<"[x] ">> ELSE <<"[ ] ">>

\* One line of newBody.
ItemLine(i) == <<IF i.bullet = "" THEN "- " ELSE i.bullet>> \o tokenFor(i.checkbox) \o i.text

\* newBody.split: the join of no item is the empty string, which splits
\* into one empty line.
NewBodyLines(arr) == IF arr = <<>> THEN <<<<>>>> ELSE [i \in 1..Len(arr) |-> ItemLine(arr[i])]

\* writeBack(updatedItems, mutateIndex, mutateCheckbox) on the text current:
\* the lines handed to vault.modify, or current itself when nothing differs
\* and no write is made.  mutateIndex is -1 when no toggle is requested.
writeBack(current, updatedItems, mutateIndex, mutateCheckbox) ==
    LET info == getSectionInfo(current)
        lines == current
        bodyStart == info.lineStart + 1
        bodyEnd == info.lineEnd - 1
        arr == [i \in 1..Len(updatedItems) |->
                   IF i = mutateIndex + 1
                   THEN [updatedItems[i] EXCEPT !.checkbox = mutateCheckbox]
                   ELSE updatedItems[i]]
        beforeLines == Slice(lines, 0, bodyStart)
        afterLines == SliceFrom(lines, bodyEnd)
    IN beforeLines \o NewBodyLines(arr) \o afterLines

\* onEnd exchanging the items at the two indices instead of moving one.
MoveItemBySwap(prev, oldIndex, newIndex) ==
    [i \in 1..Len(prev) |->
        IF i = oldIndex + 1 THEN prev[newIndex + 1]
        ELSE IF i = newIndex + 1 THEN prev[oldIndex + 1]
        ELSE prev[i]]

\* The two splices of onEnd, indices from 0.
MoveItem(prev, oldIndex, newIndex) ==
    LET moved == prev[oldIndex + 1]
        removed == SubSeq(prev, 1, oldIndex) \o SubSeq(prev, oldIndex + 2, Len(prev))
    IN SubSeq(removed, 1, newIndex) \o <<moved>> \o SubSeq(removed, newIndex + 1, Len(removed))

\* The notes a sortable block is opened in.
SortableBodies ==
    LET ItemA == <<"- ", "a">>
        ItemB == <<"- ", "b">>
        ItemC == <<"* ", "[ ] ", "c">>
        ItemD == <<"+ ", "[X] ", "d">>
        ItemE == <<"e">>
        BlankLine == <<>>
    IN {<<ItemA, ItemB>>, <<ItemA, ItemB, ItemC>>, <<ItemC, ItemD>>, <<ItemA, BlankLine, ItemB>>,
        <<ItemE, ItemA>>}

SortableNotes ==
    {before \o <<OpenFence>> \o body \o <<CloseFence>> \o after :
        before \in {<<>>, <<<<"# ", "List">>>>},
        body \in SortableBodies,
        after \in {<<>>, <<<<"tail">>>>}}

InitSortable ==
    /\ PipelineStart
    /\ today = Days[2]
    /\ settings = CHOOSE x \in SettingsSet : x.enableValidation /\ x.autoPopulateDefaults
                                             /\ x.showSuccessNotifications
    /\ PluginIdle
    /\ DefaultsIdle
    /\ ValidatorIdle
    /\ note \in SortableNotes
    /\ original = note
    /\ state = ParseItems(BlockSource(note))
    /\ previous = <<>>
    /\ gestures = <<>>

\* The block shows the note as it is now.
Rendered == state = ParseItems(BlockSource(note))

\* The host runs the processor again after the note changed: a new
\* component is mounted with the items parsed from the new source.
Render ==
    /\ ~Rendered
    /\ state' = ParseItems(BlockSource(note))
    /\ UNCHANGED <<pipelineVars, today, settings, pluginVars, defaultsVars, validatorVars, note, original, previous, gestures>>

\* SortableJS onEnd: the item is moved in the component state and onReorder
\* writes the new order back.
DragEnd(oldIndex, newIndex) ==
    /\ Rendered
    /\ Len(gestures) < MaxGestures
    /\ state' = MoveItem(state, oldIndex, newIndex)
    /\ note' = writeBack(note, state', -1, "none")
    /\ previous' = note
    /\ gestures' = Append(gestures, "drag")
    /\ UNCHANGED <<pipelineVars, today, settings, pluginVars, defaultsVars, validatorVars, original>>

\* toggleAt(i): the checkbox flips in the component state and onToggle
\* writes it back.
ToggleAt(i) ==
    /\ Rendered
    /\ Len(gestures) < MaxGestures
    /\ state[i + 1].checkbox # "none"
    /\ LET nextState == IF state[i + 1].checkbox = "checked" THEN "unchecked" ELSE "checked"
       IN /\ state' = [state EXCEPT ![i + 1].checkbox = nextState]
          /\ note' = writeBack(note, state', i, nextState)
    /\ previous' = note
    /\ gestures' = Append(gestures, "toggle")
    /\ UNCHANGED <<pipelineVars, today, settings, pluginVars, defaultsVars, validatorVars, original>>

NextSortable ==
    \/ Render
    \/ \E oldIndex \in 0..(Len(state) - 1) : \E newIndex \in 0..(Len(state) - 1) :
            DragEnd(oldIndex, newIndex)
    \/ \E i \in 0..(Len(state) - 1) : ToggleAt(i)

SpecSortable == InitSortable /\ [][NextSortable]_vars

\* ------------------------------------------------------------------------
\* Properties of the sortable write-back
\* ------------------------------------------------------------------------
LastGesture == gestures[Len(gestures)]

\* The lines up to and including the opening fence, and from the closing
\* fence on.
LinesAbove(lines) == Slice(lines, 0, getSectionInfo(lines).lineStart + 1)

LinesBelow(lines) == SliceFrom(lines, getSectionInfo(lines).lineEnd)

\* How often x occurs in the sequence xs.
Count(xs, x) == Cardinality({i \in 1..Len(xs) : xs[i] = x})

SameBag(xs, ys) ==
    /\ Len(xs) = Len(ys)
    /\ \A i \in 1..Len(xs) : Count(xs, xs[i]) = Count(ys, xs[i])

\* C7: after a drag, the note has as many lines as before it and every line
\* outside the block body is what it was.
BoundaryPreserved ==
    (gestures # <<>> /\ LastGesture = "drag") =>
        /\ Len(note) = Len(previous)
        /\ LinesAbove(note) = LinesAbove(previous)
        /\ LinesBelow(note) = LinesBelow(previous)

\* C8: after drags only, the block body holds the items of the original
\* body, each as often as there, and the note has its original number of
\* lines.
NoDuplication ==
    (gestures # <<>> /\ \A i \in 1..Len(gestures) : gestures[i] = "drag") =>
        /\ SameBag(ParseItems(BlockSource(note)), ParseItems(BlockSource(original)))
        /\ Len(note) = Len(original)

\* ------------------------------------------------------------------------
\* Properties of assignDefaults
\* ------------------------------------------------------------------------
\* b is the value a, or a date value a written as its day.
SameDateValue(a, b) == b = a \/ (a.k = "date" /\ b = Str(<<a.v[1]>>))

\* C10: a created_date that is present, not null and not the empty string
\* comes back as the same value, at most normalized to its day.
CreatedDateKept ==
    (/\ result # NoResult
     /\ Get(record, "created_date").k \notin {"undefined", "null"}
     /\ Get(record, "created_date") # Str(<<>>))
        => SameDateValue(Get(record, "created_date"), Get(result, "created_date"))

\* C11: assignDefaults applied to its own result, with the same file name,
\* settings and current date, returns that result.
DefaultsIdempotent == again # NoResult => again = result

\* C11 witness: the first application changed the record (it filled a field
\* or normalized a date) and the second application has been made.
DefaultsIdempotentWitness ==
    /\ again # NoResult
    /\ result # record
    /\ Get(record, "created_date").k = "date"

\* The value is there: not undefined, not null, not the empty string.
NonEmptyValue(v) == v.k \notin {"undefined", "null"} /\ v # Str(<<>>)

\* C12: every key of the input record whose value is present and non-empty
\* carries the same value in the result, a date at most normalized to its
\* day.
ValuesKept ==
    result # NoResult =>
        \A i \in 1..Len(record) :
            NonEmptyValue(record[i].val)
                => SameDateValue(record[i].val, Get(result, record[i].key))

\* C14: for a record whose atomic-task value is not the boolean true,
\* assignDefaults returns the record it was given.
DefaultsGate ==
    (result # NoResult /\ Get(record, "atomic-task") # Bool(TRUE)) => result = record

\* C15: for every custom field of the settings that carries a defaultValue,
\* the result holds the defaultValue under the field's key when the record
\* has no value, null or the empty string there, and the record's value
\* otherwise.
CustomDefaultsApplied ==
    result # NoResult =>
        \A i \in 1..Len(settings.customSchemaFields) :
            LET field == settings.customSchemaFields[i]
                given == Get(record, field.name)
            IN field.defaultValue # NoDefault =>
                  Get(result, field.name) =
                      IF NonEmptyValue(given) THEN given ELSE field.defaultValue

\* C13: for a record whose atomic-task value is not the boolean true,
\* validate returns isValid true with no error and no warning.
ValidateGate ==
    (validation # NoValidation /\ Get(record, "atomic-task") # Bool(TRUE))
        => validation = FreshResult

\* C16: the result of validate has isValid true exactly when its error
\* list is empty, whatever its warnings.
ValidIffNoErrors ==
    validation # NoValidation => (validation.isValid <=> validation.errors = <<>>)

\* Both sides occur: a valid result that carries a warning, and (in another
\* behavior) an invalid one; the first is the case where a warning could
\* have cleared the flag.
ValidIffNoErrorsWitness ==
    /\ validation # NoValidation
    /\ validation.isValid
    /\ validation.errors = <<>>
    /\ validation.warnings # <<>>

\* A value the required-field check of the specification counts as
\* missing: absent, null, the empty string or the empty list.
MissingValue(v) == v.k \in {"undefined", "null"} \/ v = Str(<<>>) \/ v = Arr(<<>>)

\* C17: for a record whose marker is true and every required key, core or
\* custom, validate pushes the error that the key is missing or empty when
\* the key is absent or holds null, the empty string or the empty list, and
\* does not push it when the key holds a non-empty value.
RequiredCheck ==
    (validation # NoValidation /\ Get(record, "atomic-task") = Bool(TRUE)) =>
        LET requiredFields == getRequiredFields(settings.customSchemaFields)
        IN \A i \in 1..Len(requiredFields) :
              MissingValue(Get(record, requiredFields[i]))
                  <=> \E j \in 1..Len(validation.errors) :
                         validation.errors[j] = Issue(requiredFields[i], "is missing or empty")

\* C18: for a record whose marker is true and a field of type number whose
\* value is present, validate pushes an error naming the field exactly when
\* the value does not coerce to a number.
NumberCheck ==
    (validation # NoValidation /\ Get(record, "atomic-task") = Bool(TRUE)) =>
        LET schemaFields == getCombinedSchemaFields(settings.customSchemaFields)
        IN \A i \in 1..Len(schemaFields) :
              LET value == Get(record, schemaFields[i].name)
              IN (schemaFields[i].type = "number" /\ value.k \notin {"undefined", "null"}) =>
                    (~CoercesToNumber(value)
                        <=> \E j \in 1..Len(validation.errors) :
                               validation.errors[j].field = schemaFields[i].name)

\* The scenario: validate has run on a record with the marker true, status
\* done and no completed_date.
DoneWithoutCompletion ==
    /\ validation # NoValidation
    /\ Get(record, "atomic-task") = Bool(TRUE)
    /\ Get(record, "status") = Str(<<"done">>)
    /\ ~Has(record, "completed_date")

\* A value of the type the schema names for the field.
OfSchemaType(value, field) ==
    CASE field.type = "boolean" -> value.k = "bool"
      [] field.type \in {"string", "text"} -> value.k = "str"
      [] field.type = "number" -> value.k = "num"
      [] field.type = "date" -> value.k = "date" \/ isValidDateString(value)
      [] field.type \in {"array", "list"} -> value.k = "arr"
      [] OTHER -> value.k = "str"
                  /\ \E i \in 1..Len(field.enumValues) : field.enumValues[i] = value.v

\* Every required field of the record holds a value and every value the
\* record holds for a schema field, or for estimate, is of the field's type.
WellFormed ==
    LET schemaFields == getCombinedSchemaFields(settings.customSchemaFields)
    IN /\ \A i \in 1..Len(schemaFields) :
              LET value == Get(record, schemaFields[i].name)
              IN /\ schemaFields[i].required => ~MissingValue(value)
                 /\ value.k \notin {"undefined", "null"}
                        => OfSchemaType(value, schemaFields[i])
       /\ Has(record, "estimate") => OfSchemaType(Get(record, "estimate"), EstimateField)

\* C19 as stated: in the scenario validate returns isValid true and exactly
\* one warning, which names completed_date.
DoneWarnsAsStated ==
    DoneWithoutCompletion =>
        /\ validation.isValid
        /\ Len(validation.warnings) = 1
        /\ validation.warnings[1].field = "completed_date"

\* C19 amended: in the scenario validate returns exactly one warning, which
\* names completed_date; isValid is true when the record is well formed
\* besides, and false when it lacks its title or its created_date, as the
\* record of the scenario does.
DoneWarnsOnce ==
    DoneWithoutCompletion =>
        /\ Len(validation.warnings) = 1
        /\ validation.warnings[1].field = "completed_date"
        /\ WellFormed => validation.isValid
        /\ (~Has(record, "title") \/ ~Has(record, "created_date")) => ~validation.isValid

\* The scenario on a well-formed record that also has a due_date in the
\* past, the rule that would add a second warning were the status not done.
DoneWarnsOnceWitness ==
    /\ DoneWithoutCompletion
    /\ WellFormed
    /\ Get(record, "due_date") = Str(<<"2024-01-15">>)
    /\ validation.isValid

\* C20: for every custom field list, getRequiredFields returns every core
\* required key, and every key it returns is the name of a field that
\* getCombinedSchemaFields returns for the same list.
RequiredComplete ==
    schema # NoSchema =>
        /\ \A i \in 1..Len(CORE_REQUIRED_FIELDS) :
              \E j \in 1..Len(schema.required) : schema.required[j] = CORE_REQUIRED_FIELDS[i]
        /\ \A j \in 1..Len(schema.required) :
              \E k \in 1..Len(schema.combined) : schema.combined[k].name = schema.required[j]

\* Both functions have run on a list with a required custom field, so the
\* required keys are the core ones and one more.
RequiredCompleteWitness ==
    /\ schema # NoSchema
    /\ Len(schema.required) > Len(CORE_REQUIRED_FIELDS)
    /\ \E i \in 1..Len(settings.customSchemaFields) : settings.customSchemaFields[i].required

\* C27: a key with a timer that is scheduled and has not fired is a key of
\* the map of DebounceManager (isActive is true for it).
PendingTimersTracked ==
    \A t \in scheduled : timers[t.key] # 0

NoLostUpdate ==
    \A r \in runs :
        (r.pc = "modify" /\ r.faithful) =>
            LET current == readFrontmatter(vault[r.key])
                stored == readFrontmatter(r.newContent)
                corrected == assignDefaults(current.rec, FileName(r.key), settings, today)
            IN ~current.isNull =>
                  \A i \in 1..Len(current.rec) :
                      LET key == current.rec[i].key
                          value == current.rec[i].val
                      IN SameDateValue(value, Get(corrected, key))
                            => SameDateValue(value, Get(stored.rec, key))

\* C26: after a drag, every non-blank line of the block body is a line of
\* the body before the drag: the line serialized from an item is the line
\* the item was parsed from, bullet symbol and checkbox token included.
LineRoundTrip ==
    (gestures # <<>> /\ LastGesture = "drag") =>
        LET written == SelectSeq(BlockSource(note), NotBlank)
            rawLines == SelectSeq(BlockSource(previous), NotBlank)
        IN \A i \in 1..Len(written) : \E j \in 1..Len(rawLines) : written[i] = rawLines[j]

\* xs without its element at position i.
Without(xs, i) == SubSeq(xs, 1, i - 1) \o SubSeq(xs, i + 1, Len(xs))

NoRunAfterUnload ==
    [][unloaded => \A r \in runs' \ runs : r.pc # "read"]_vars

\* C22: no step issues a vault.modify whose text is the text of the file at
\* that moment (the step in which writeFrontmatter has read the file and
\* built its text).
NoSpuriousWrite ==
    [][\A r \in runs' \ runs : r.pc = "modify" => r.newContent # vault[r.key]]_vars

\* C23: no run is about to store a text over a file that holds a frontmatter
\* region readFrontmatter cannot parse, unless the text keeps that region.
NullIsNotEmptyRecord ==
    \A r \in runs :
        LET content == vault[r.key]
            m == FrontmatterMatch(content)
        IN (r.pc = "modify" /\ m.last # 0 /\ readFrontmatter(content).isNull)
              => SubSeq(r.newContent, 1, m.last) = SubSeq(content, 1, m.last)


\* C21: whatever loads, additions, edits and removals happened, the custom
\* fields of the settings have pairwise distinct keys, none of them is the
\* key of a core field, and every custom field of type enum has at least
\* one allowed value.
SchemaInvariant ==
    LET customSchemaFields == settings.customSchemaFields
        indices == 1..Len(customSchemaFields)
    IN  /\ \A i, j \in indices :
                i # j => customSchemaFields[i].name # customSchemaFields[j].name
        /\ \A i \in indices :
                customSchemaFields[i].name \notin {"atomic-task", "title", "created_date", "status"}
        /\ \A i \in indices :
                customSchemaFields[i].type = "enum" => Len(customSchemaFields[i].enumValues) > 0

\* C30: a key whose field was deleted in the settings tab, and that was not
\* given to a field there again, is the key of no custom field of the
\* settings, whatever loads followed the deletion.
RemovalDurable ==
    \A key \in deleted :
        \A i \in 1..Len(settings.customSchemaFields) :
            settings.customSchemaFields[i].name # key

====
